---- MODULE Spec2Model ----
(***************************************************************************)
(* Model of the core arbitration market of the node-local scheduler:       *)
(*   schedulerlocal/subset/subsetmarket.py        (SubsetMarket)           *)
(*   schedulerlocal/node/cpusetutils.py           (get_cpus_with_weight)   *)
(*   schedulerlocal/subset/subsetoversubscription.py (the two policies)    *)
(*   schedulerlocal/predictor/predictor.py  (PredictorMax, PredictorScrooge)*)
(*                                                                         *)
(* Python values are represented as follows:                               *)
(*   - a core (ServerCPU) is its integer cpu id;                           *)
(*   - a list is a sequence, a dict is a function whose DOMAIN is the set  *)
(*     of keys (or, where insertion order matters, a sequence of entries); *)
(*   - None is the string "None"; the three-valued flag `effective` is one *)
(*     of "None", "True", "False";                                         *)
(*   - a raised exception is the field err = TRUE of the result, the state *)
(*     mutated before the raise being kept.                                *)
(* The Subset, the subset manager and the cpuset (topology) are            *)
(* collaborators whose code is not part of the sources; they are modelled  *)
(* from their contract in the specification (sections 3 and 6).            *)
(* The debug print of execute_orders (line 144) is taken to have no        *)
(* effect.                                                                 *)
(***************************************************************************)
EXTENDS Integers, Sequences, FiniteSets, TLC

\* ------------------------------------------------------------------ bounds
NCores == 3             \* number of physical cores of a market's topology
MaxQuantity == 2        \* largest quantity of an order or of a reclaim

Subsets == {"A", "B", "C"}
None == "None"

Min(a, b) == IF a <= b THEN a ELSE b
Max(a, b) == IF a >= b THEN a ELSE b

\* F applied to the value of v, v being evaluated once: a local variable.
Eval(v, F(_)) == CHOOSE y \in {F(x) : x \in {v}} : TRUE

\* ------------------------------------------------------------------ state
VARIABLES
    cpuset,           \* SubsetMarket.cpuset: the cpu list of the topology
    actors,           \* SubsetMarket.actors: list, descending priority
    actors_priority,  \* SubsetMarket.actors_priority: dict actor -> priority
    actor_fallback,   \* SubsetMarket.actor_fallback: actor or None
    current_orders,   \* SubsetMarket.current_orders: dict actor -> request
    effective,        \* SubsetMarket.effective: None, True or False
    res,              \* per subset, its list of owned cores (Subset.get_res())
    alloc,            \* per subset, Subset.get_allocation()
    max_alloc,        \* per subset, Subset.get_max_consumer_allocation()
    policy,           \* per subset, its oversubscription policy and ratio
    registered,       \* history: the registered actors in registration order
    ret               \* history: the last call, its arguments and its outcome

vars == <<cpuset, actors, actors_priority, actor_fallback, current_orders, effective,
          res, alloc, max_alloc, policy, registered, ret>>

\* ------------------------------------------------- collaborators (contract)
\* cpuset.get_distance_between_cpus: symmetric, non-negative.  The cores sit
\* on a line, the distance being the gap between their ids.
Distance(a, b) == IF a >= b THEN a - b ELSE b - a

\* cpuset.get_cpu_list(): every core of the topology, ascending.
CpuList == cpuset

\* membership in a python list
InList(x, list) == \E i \in 1..Len(list) : list[i] = x

\* list.remove(x): removes the first occurrence.
ListRemove(list, x) ==
    IF ~InList(x, list) THEN list
    ELSE Eval(CHOOSE i \in 1..Len(list) :
                 list[i] = x /\ \A j \in 1..(i - 1) : list[j] # x,
              LAMBDA first :
                 [k \in 1..(Len(list) - 1) |->
                     IF k < first THEN list[k] ELSE list[k + 1]])

\* Subset.add_res(cpu) / Subset.remove_res(cpu) on the owned-core lists r.
AddRes(r, s, cpu) == [r EXCEPT ![s] = Append(@, cpu)]
RemoveRes(r, s, cpu) == [r EXCEPT ![s] = ListRemove(@, cpu)]

\* Subset.get_capacity() / count_res(): the number of owned cores.
GetCapacity(r, s) == Len(r[s])

\* subset_manager.get_available(): the topology cores no subset owns,
\* ascending.
RECURSIVE AvailableFrom(_, _)
AvailableFrom(r, c) ==
    IF c > Len(CpuList) THEN <<>>
    ELSE IF \E s \in Subsets : InList(CpuList[c], r[s]) THEN AvailableFrom(r, c + 1)
    ELSE <<CpuList[c]>> \o AvailableFrom(r, c + 1)

SubsetManagerGetAvailable(r) == AvailableFrom(r, 1)

\* --------------------------------------------------- get_cpus_with_weight
\* The inner loop over to_list (lines 25-34): the distances summed and
\* counted, or identical when available_cpu itself is met (break).
RECURSIVE ScanToList(_, _, _, _, _, _, _)
ScanToList(available_cpu, to_list, distance_max, exclude_max, j, total, count) ==
    IF j > Len(to_list)
    THEN [total |-> total, count |-> count, identical |-> FALSE]
    ELSE IF to_list[j] = available_cpu
    THEN [total |-> total, count |-> count, identical |-> TRUE]
    ELSE LET distance == Distance(to_list[j], available_cpu)
         IN  IF exclude_max /\ distance >= distance_max
             THEN ScanToList(available_cpu, to_list, distance_max, exclude_max,
                             j + 1, total, count)
             ELSE ScanToList(available_cpu, to_list, distance_max, exclude_max,
                             j + 1, total + distance, count + 1)

\* computed_distances[key] = num/den: a dict keeps the position of the first
\* insertion of a key and the value of the last.
DictPut(dict, key, num, den) ==
    IF \E i \in 1..Len(dict) : dict[i].id = key
    THEN [i \in 1..Len(dict) |->
            IF dict[i].id = key THEN [id |-> key, num |-> num, den |-> den]
            ELSE dict[i]]
    ELSE Append(dict, [id |-> key, num |-> num, den |-> den])

\* WeightLoop without the test of line 36: a core met in to_list is weighted
\* with the distances seen before it.
RECURSIVE WeightLoopKeepIdentical(_, _, _, _, _, _)
WeightLoopKeepIdentical(distance_max, from_list, to_list, exclude_max, i, computed) ==
    IF i > Len(from_list) THEN computed
    ELSE Eval(ScanToList(from_list[i], to_list, distance_max, exclude_max, 1, 0, 0),
              LAMBDA scan :
                 Eval(IF scan.count <= 0 THEN DictPut(computed, from_list[i], 0, 1)
                      ELSE DictPut(computed, from_list[i], scan.total, scan.count),
                      LAMBDA next :
                         WeightLoopKeepIdentical(distance_max, from_list, to_list,
                                                 exclude_max, i + 1, next)))

\* The weight of each core of from_list: the sequence of the dict's entries
\* in insertion order, the average distance total/count kept as a fraction.
RECURSIVE WeightLoop(_, _, _, _, _, _)
WeightLoop(distance_max, from_list, to_list, exclude_max, i, computed) ==
    IF i > Len(from_list) THEN computed
    ELSE Eval(ScanToList(from_list[i], to_list, distance_max, exclude_max, 1, 0, 0),
              LAMBDA scan :
                 Eval(IF scan.identical THEN computed
                      ELSE IF scan.count <= 0 THEN DictPut(computed, from_list[i], 0, 1)
                      ELSE IF scan.total >= 0
                           THEN DictPut(computed, from_list[i], scan.total, scan.count)
                      ELSE computed,
                      LAMBDA next :
                         WeightLoop(distance_max, from_list, to_list, exclude_max,
                                    i + 1, next)))

\* GetCpusWithWeight counting every distance, exclude_max being ignored.
GetCpusWithWeightCountAll(distance_max, from_list, to_list, exclude_max) ==
    WeightLoop(distance_max, from_list, to_list, FALSE, 1, <<>>)

GetCpusWithWeight(distance_max, from_list, to_list, exclude_max) ==
    WeightLoop(distance_max, from_list, to_list, exclude_max, 1, <<>>)

\* ------------------------------------------------- __get_ordered_cpu_list
\* x.num/x.den < y.num/y.den
WeightLess(x, y) == x.num * y.den < y.num * x.den

\* sorted(..., key=weight) is stable: an entry goes after the entries that
\* are not heavier than it.
InsertByWeight(sorted, e) ==
    Eval(Cardinality({k \in 1..Len(sorted) : ~WeightLess(e, sorted[k])}),
         LAMBDA before :
            [k \in 1..(Len(sorted) + 1) |->
                IF k <= before THEN sorted[k]
                ELSE IF k = before + 1 THEN e
                ELSE sorted[k - 1]])

RECURSIVE SortByWeight(_, _)
SortByWeight(dict, n) ==
    IF n = 0 THEN <<>>
    ELSE Eval(SortByWeight(dict, n - 1), LAMBDA sorted : InsertByWeight(sorted, dict[n]))

DistanceMax == 50

GetOrderedCpuList(list_to_sort, distance_from) ==
    Eval(GetCpusWithWeight(DistanceMax, list_to_sort, distance_from, FALSE),
         LAMBDA candidates :
            Eval(SortByWeight(candidates, Len(candidates)),
                 LAMBDA sorted : [k \in 1..Len(sorted) |-> sorted[k].id]))

\* a dict without / with a key
DictDel(dict, key) == [k \in (DOMAIN dict) \ {key} |-> dict[k]]
DictSet(dict, key, value) ==
    [k \in (DOMAIN dict) \cup {key} |-> IF k = key THEN value ELSE dict[k]]
EmptyDict == [k \in {} |-> 0]

\* ---------------------------------------------------- is_market_effective
RECURSIVE SumAllocation(_)
SumAllocation(n) == IF n = 0 THEN 0 ELSE SumAllocation(n - 1) + alloc[actors[n]]

\* ComputeEffective without the margin of 0.8: no hysteresis.
ComputeEffectiveNoMargin(eff, recompute) ==
    IF eff = "None" \/ recompute
    THEN IF SumAllocation(Len(actors)) > Len(CpuList) THEN "True" ELSE "False"
    ELSE eff

\* ComputeEffective reaching true as soon as the allocation is at least the
\* core count.
ComputeEffectiveAtLeast(eff, recompute) ==
    IF eff = "None" \/ recompute
    THEN LET allocation == SumAllocation(Len(actors))
         IN  IF eff = "True"
             THEN IF 5 * allocation > Len(CpuList) * 4 THEN "True" ELSE "False"
             ELSE IF allocation >= Len(CpuList) THEN "True" ELSE "False"
    ELSE eff

\* The flag after is_market_effective(recompute), which is also the value
\* the call returns.  allocation > len(cpu_list)*margin with margin 1 or
\* 0.8 is compared in fifths: 5*allocation > len(cpu_list)*(5 or 4); the
\* float product n*0.8 is the exact integer whenever 0.8*n is one.
ComputeEffective(eff, recompute) ==
    IF eff = "None" \/ recompute
    THEN LET allocation == SumAllocation(Len(actors))
             margin5 == IF eff = "True" THEN 4 ELSE 5
         IN  IF 5 * allocation > Len(CpuList) * margin5 THEN "True" ELSE "False"
    ELSE eff

\* ------------------------------------------- oversubscription.get_available
\* Static policy (lines 82-99, 117, 202): capacity*ratio - allocation.
\* Dynamic policy (lines 260-276): asks the market, which recomputes its
\* flag; market not effective: count_res - allocation; market effective:
\* the expression of line 276 calls predictor.predict() without its
\* required argument data (predictor.py line 53) and raises.
GetAvailable(r, eff, s) ==
    IF policy[s].kind = "static"
    THEN [value |-> GetCapacity(r, s) * policy[s].ratio - alloc[s],
          eff |-> eff, err |-> FALSE]
    ELSE Eval(ComputeEffective(eff, TRUE),
              LAMBDA eff2 :
                 IF eff2 # "True"
                 THEN [value |-> GetCapacity(r, s) - alloc[s], eff |-> eff2,
                       err |-> FALSE]
                 ELSE [value |-> 0, eff |-> eff2, err |-> TRUE])

\* ------------------------------------------ the static policy, as numbers
\* The functions of SubsetOversubscriptionStatic on the numbers they read:
\* the capacity, the allocation and the largest single allocation of the
\* subset, and the ratio, a fraction num/den that need not be an integer.
\* math.floor(n/d) and math.ceil(n/d) for d > 0
Floor(n, d) == n \div d
Ceil(n, d) == 0 - ((0 - n) \div d)

\* get_available() (lines 82-99, 117): capacity * ratio - allocation, a
\* fraction of denominator ratio.den.
StaticAvailable(capacity, allocation, ratio) ==
    [num |-> capacity * ratio.num - allocation * ratio.den, den |-> ratio.den]

\* unused_resources_count without the test of line 136
UnusedNoFloor(capacity, allocation, max_consumer, ratio) ==
    Floor(StaticAvailable(capacity, allocation, ratio).num * ratio.den,
          StaticAvailable(capacity, allocation, ratio).den * ratio.num)

\* unused_resources_count (lines 119-139)
UnusedResourcesCount(capacity, allocation, max_consumer, ratio) ==
    Eval(StaticAvailable(capacity, allocation, ratio),
         LAMBDA available_oversubscribed :
            Eval(Floor(available_oversubscribed.num * ratio.den,
                       available_oversubscribed.den * ratio.num),
                 LAMBDA unused_cpu :
                    IF capacity - unused_cpu < max_consumer
                    THEN Max(0, capacity - max_consumer)
                    ELSE unused_cpu))

\* Subset.get_max_consumer_allocation(additional_vm, additional_vm_quantity):
\* the largest single allocation, the candidate included.
GetMaxConsumerAllocation(max_consumer, quantity) == Max(max_consumer, quantity)

\* missing_physical of line 166: ceil(missing_oversubscribed / ratio) when
\* the request exceeds what is available, the missing quantity being the
\* fraction missing_num / available.den.
MissingPhysical(missing_num, den, ratio) ==
    IF missing_num > 0 THEN Ceil(missing_num * ratio.den, den * ratio.num) ELSE 0

\* get_additional_res_count_required_for_quantity without lines 171-173
AdditionalNoMinimal(capacity, allocation, max_consumer, ratio, quantity) ==
    MissingPhysical(quantity * ratio.den
                       - StaticAvailable(capacity, allocation, ratio).num,
                    ratio.den, ratio)

\* get_additional_res_count_required_for_quantity (lines 142-175)
StaticAdditionalResCount(capacity, allocation, max_consumer, ratio, quantity) ==
    Eval(StaticAvailable(capacity, allocation, ratio),
         LAMBDA available_oversubscribed :
            Eval(MissingPhysical(quantity * available_oversubscribed.den
                                    - available_oversubscribed.num,
                                 available_oversubscribed.den, ratio),
                 LAMBDA missing_physical :
                    IF capacity + missing_physical
                          < GetMaxConsumerAllocation(max_consumer, quantity)
                    THEN missing_physical
                           + (GetMaxConsumerAllocation(max_consumer, quantity)
                                 - (capacity + missing_physical))
                    ELSE missing_physical))

\* get_additional_res_count_required_for_quantity of the dynamic policy
\* (lines 278-299): the return of line 299; the lines after it are dead.
DynamicAdditionalResCount(capacity, quantity) == 1

\* ---------------------------------------------------- __transfer_resources
\* list[-amount:], python's slice: -0 is 0, so amount = 0 gives the whole
\* list.
SliceLast(list, amount) ==
    LET start == IF amount > 0 THEN Max(Len(list) - amount, 0)
                 ELSE Min(0 - amount, Len(list))
    IN  SubSeq(list, start + 1, Len(list))

RECURSIVE RemoveEach(_, _, _, _)
RemoveEach(r, sender, cpus, k) ==
    IF k > Len(cpus) THEN r
    ELSE RemoveEach(RemoveRes(r, sender, cpus[k]), sender, cpus, k + 1)

\* The loop of lines 270-276 without sender.remove_res.
RECURSIVE MoveClosestKeep(_, _, _, _, _, _, _, _)
MoveClosestKeep(r, receiver, sender, candidates_ordered, index, amount, simulation, cpu_affected) ==
    IF index >= Len(candidates_ordered) \/ index >= amount
    THEN [res |-> r, affected |-> cpu_affected]
    ELSE Eval(IF ~simulation
              THEN AddRes(r, receiver, candidates_ordered[index + 1])
              ELSE r,
              LAMBDA r2 :
                 MoveClosestKeep(r2, receiver, sender, candidates_ordered, index + 1,
                                 amount, simulation,
                                 Append(cpu_affected, candidates_ordered[index + 1])))

\* The loop of lines 270-276 over candidates_ordered, index from 0.
RECURSIVE MoveClosest(_, _, _, _, _, _, _, _)
MoveClosest(r, receiver, sender, candidates_ordered, index, amount, simulation, cpu_affected) ==
    IF index >= Len(candidates_ordered) \/ index >= amount
    THEN [res |-> r, affected |-> cpu_affected]
    ELSE Eval(IF ~simulation
              THEN AddRes(RemoveRes(r, sender, candidates_ordered[index + 1]),
                          receiver, candidates_ordered[index + 1])
              ELSE r,
              LAMBDA r2 :
                 MoveClosest(r2, receiver, sender, candidates_ordered, index + 1,
                             amount, simulation,
                             Append(cpu_affected, candidates_ordered[index + 1])))

\* __transfer_resources that does not look at simulation
TransferForReal(r, receiver, sender, amount, simulation) ==
    IF receiver = None
    THEN [res |-> RemoveEach(r, sender, SliceLast(r[sender], amount), 1),
          affected |-> SliceLast(r[sender], amount)]
    ELSE MoveClosest(r, receiver, sender, GetOrderedCpuList(r[sender], r[receiver]),
                     0, amount, FALSE, <<>>)

TransferResources(r, receiver, sender, amount, simulation) ==
    IF receiver = None
    THEN Eval(SliceLast(r[sender], amount),
              LAMBDA cpu_affected :
                 [res |-> IF ~simulation THEN RemoveEach(r, sender, cpu_affected, 1)
                          ELSE r,
                  affected |-> cpu_affected])
    ELSE Eval(GetOrderedCpuList(r[sender], r[receiver]),
              LAMBDA candidates_ordered :
                 MoveClosest(r, receiver, sender, candidates_ordered, 0, amount,
                             simulation, <<>>))

\* ------------------------------------------------------------ __get_renters
\* The running state of one call: the owned-core lists, the market flag,
\* count_to_reclaim, cpu_affected, and whether an exception was raised.
\* First, the unallocated resources (lines 199-209).
RECURSIVE Tier1(_, _, _)
Tier1Pick(st, requester, simulation, ordered) ==
    IF ordered = <<>> THEN [st EXCEPT !.err = TRUE]   \* [0]: IndexError
    ELSE [st EXCEPT !.affected = Append(@, ordered[1]),
                    !.count = @ - 1,
                    !.res = IF ~simulation /\ requester # None
                            THEN AddRes(@, requester, ordered[1]) ELSE @]

Tier1(st, requester, simulation) ==
    Eval(SubsetManagerGetAvailable(st.res),
         LAMBDA candidates :
            IF st.count <= 0 \/ candidates = <<>> THEN st
            ELSE Eval(GetOrderedCpuList(candidates,
                                        IF requester = None THEN st.affected
                                        ELSE st.res[requester]),
                      LAMBDA ordered :
                         Eval(Tier1Pick(st, requester, simulation, ordered),
                              LAMBDA picked :
                                 IF picked.err THEN picked
                                 ELSE Tier1(picked, requester, simulation))))

\* Second, one neighbor (lines 219-222).
Tier2Transfer(st, actor, requester, simulation, a2) ==
    Eval(TransferResources(st.res, requester, actor, Min(a2.value, st.count),
                           simulation),
         LAMBDA t :
            [res |-> t.res, eff |-> a2.eff,
             count |-> st.count - Min(a2.value, st.count),
             affected |-> st.affected \o t.affected, err |-> FALSE])

Tier2Actor(st, actor, requester, simulation) ==
    Eval(GetAvailable(st.res, st.eff, actor),
         LAMBDA a1 :
            IF a1.err THEN [st EXCEPT !.eff = a1.eff, !.err = TRUE]
            ELSE IF a1.value >= 0
            THEN Eval(GetAvailable(st.res, a1.eff, actor),
                      LAMBDA a2 :
                         IF a2.err THEN [st EXCEPT !.eff = a2.eff, !.err = TRUE]
                         ELSE Tier2Transfer(st, actor, requester, simulation, a2))
            ELSE [st EXCEPT !.eff = a1.eff])

\* The second tier without the test of to_ignore.
RECURSIVE Tier2NoIgnore(_, _, _, _, _)
Tier2NoIgnore(st, i, requester, to_ignore, simulation) ==
    IF i < 1 THEN st
    ELSE IF actors[i] = requester
    THEN Tier2NoIgnore(st, i - 1, requester, to_ignore, simulation)
    ELSE Eval(Tier2Actor(st, actors[i], requester, simulation),
              LAMBDA st2 :
                 IF st2.err \/ st2.count <= 0 THEN st2
                 ELSE Tier2NoIgnore(st2, i - 1, requester, to_ignore, simulation))

\* Second, the neighbors from the low priority to the high (lines 215-225):
\* i runs over reversed(self.actors).
RECURSIVE Tier2(_, _, _, _, _)
Tier2(st, i, requester, to_ignore, simulation) ==
    IF i < 1 THEN st
    ELSE IF actors[i] = requester \/ InList(actors[i], to_ignore)
    THEN Tier2(st, i - 1, requester, to_ignore, simulation)
    ELSE Eval(Tier2Actor(st, actors[i], requester, simulation),
              LAMBDA st2 :
                 IF st2.err \/ st2.count <= 0 THEN st2
                 ELSE Tier2(st2, i - 1, requester, to_ignore, simulation))

\* What the fallback actor keeps (line 229).
LetToFallbackAtLeast == max_alloc[actor_fallback]

\* Third, the weakest neighbor (lines 228-233); actor_fallback None there
\* raises (None has no get_max_consumer_allocation).
Tier3(st, requester, simulation) ==
    IF st.count > 0 /\ requester # actor_fallback
    THEN IF actor_fallback = None THEN [st EXCEPT !.err = TRUE]
         ELSE Eval(Min(GetCapacity(st.res, actor_fallback) - LetToFallbackAtLeast,
                       st.count),
                   LAMBDA reclaim_from_fallback :
                      IF reclaim_from_fallback > 0
                      THEN Eval(TransferResources(st.res, requester, actor_fallback,
                                                  reclaim_from_fallback, simulation),
                                LAMBDA t :
                                   [st EXCEPT !.res = t.res,
                                              !.affected = @ \o t.affected,
                                              !.count = @ - reclaim_from_fallback])
                      ELSE st)
    ELSE st

\* GetRenters asking the neighbors before it looks at the unallocated
\* resources.
GetRentersPeersFirst(r, eff, requester, quantity, to_ignore, simulation) ==
    Eval(Tier2([res |-> r, eff |-> eff, count |-> quantity, affected |-> <<>>,
                err |-> FALSE], Len(actors), requester, to_ignore, simulation),
         LAMBDA st2 :
            IF st2.err \/ st2.count <= 0 THEN st2
            ELSE Eval(Tier1(st2, requester, simulation),
                      LAMBDA st1 :
                         IF st1.err THEN st1 ELSE Tier3(st1, requester, simulation)))

GetRenters(r, eff, requester, quantity, to_ignore, simulation) ==
    Eval(Tier1([res |-> r, eff |-> eff, count |-> quantity, affected |-> <<>>,
                err |-> FALSE], requester, simulation),
         LAMBDA st1 :
            IF st1.err \/ st1.count <= 0 THEN st1
            ELSE Eval(Tier2(st1, Len(actors), requester, to_ignore, simulation),
                      LAMBDA st2 :
                         IF st2.err THEN st2 ELSE Tier3(st2, requester, simulation)))

\* ---------------------------------------------------------------- actions
\* The record of the last call: its name, the actor, the integer argument
\* (priority, request or quantity), the boolean argument (simulation or
\* recompute), whether it raised, the list it returned (reclaim_from_all),
\* the orders resolved one after the other and the orders its loop left
\* pending (execute_orders) and the flag it returned
\* (is_market_effective).  pass_order records its outcome only.
Ret(op, actor, arg, flag, err, affected, trace, left, value) ==
    [op |-> op, actor |-> actor, arg |-> arg, flag |-> flag, err |-> err,
     affected |-> affected, trace |-> trace, left |-> left, value |-> value]

\* IndexToInsert with the comparison <= : an equal priority goes first.
IndexToInsertLe(priority) ==
    IF \E i \in 1..Len(actors) : actors_priority[actors[i]] <= priority
    THEN CHOOSE i \in 1..Len(actors) :
            /\ actors_priority[actors[i]] <= priority
            /\ \A j \in 1..(i - 1) : ~(actors_priority[actors[j]] <= priority)
    ELSE 0

\* The index (from 1) register_actor inserts at, 0 for an append: the first
\* actor whose priority is lower (lines 90-94).
IndexToInsert(priority) ==
    IF \E i \in 1..Len(actors) : actors_priority[actors[i]] < priority
    THEN CHOOSE i \in 1..Len(actors) :
            /\ actors_priority[actors[i]] < priority
            /\ \A j \in 1..(i - 1) : ~(actors_priority[actors[j]] < priority)
    ELSE 0

ListInsert(list, index, x) ==
    [k \in 1..(Len(list) + 1) |->
        IF k < index THEN list[k] ELSE IF k = index THEN x ELSE list[k - 1]]

\* The actor list after register_actor's insertion (lines 97-100).
InsertActor(actor, priority) ==
    Eval(IndexToInsert(priority),
         LAMBDA index_to_insert :
            IF index_to_insert = 0 THEN Append(actors, actor)
            ELSE ListInsert(actors, index_to_insert, actor))

RegisterActor(actor, priority) ==
    /\ ret' = Ret("register_actor", actor, priority, FALSE, FALSE, <<>>, <<>>,
                  EmptyDict, "None")
    /\ IF InList(actor, actors)
       THEN UNCHANGED <<actors, actors_priority, actor_fallback, registered>>
       ELSE /\ actors' = InsertActor(actor, priority)
            /\ actors_priority' = DictSet(actors_priority, actor, priority)
            /\ actor_fallback' = actors'[Len(actors')]
            /\ registered' = Append(registered, actor)
    /\ UNCHANGED <<cpuset, current_orders, effective, res, alloc, max_alloc, policy>>

\* The fallback after remove_actor (lines 114-115), remaining the actor list.
FallbackAfterRemove(remaining) ==
    IF remaining = <<>> THEN None ELSE actor_fallback

\* del of a missing key raises KeyError before anything is changed.
RemoveActor(actor) ==
    /\ ret' = Ret("remove_actor", actor, 0, FALSE, actor \notin DOMAIN actors_priority,
                  <<>>, <<>>, EmptyDict, "None")
    /\ IF actor \notin DOMAIN actors_priority
       THEN UNCHANGED <<actors, actors_priority, actor_fallback, registered>>
       ELSE /\ actors_priority' = DictDel(actors_priority, actor)
            /\ actors' = ListRemove(actors, actor)
            /\ actor_fallback' = FallbackAfterRemove(actors')
            /\ registered' = ListRemove(registered, actor)
    /\ UNCHANGED <<cpuset, current_orders, effective, res, alloc, max_alloc, policy>>

\* The orders after pass_order, when it does not raise (line 130).
OrdersAfterPass(actor, request) == DictSet(current_orders, actor, request)

\* pass_order that replaces a pending order
PassOrderOverwrite(actor, request) ==
    /\ ret' = Ret("pass_order", None, 0, FALSE, FALSE, <<>>, <<>>, EmptyDict, "None")
    /\ current_orders' = OrdersAfterPass(actor, request)
    /\ UNCHANGED <<cpuset, actors, actors_priority, actor_fallback, effective, res,
                   alloc, max_alloc, policy, registered>>

PassOrder(actor, request) ==
    /\ ret' = Ret("pass_order", None, 0, FALSE, actor \in DOMAIN current_orders,
                  <<>>, <<>>, EmptyDict, "None")
    /\ current_orders' = IF actor \in DOMAIN current_orders THEN current_orders
                         ELSE OrdersAfterPass(actor, request)
    /\ UNCHANGED <<cpuset, actors, actors_priority, actor_fallback, effective, res,
                   alloc, max_alloc, policy, registered>>

\* The test of line 143.
NeedsCores(orders, actor) == actor \in DOMAIN orders /\ orders[actor] > 0

\* One order resolved (lines 145-147); ex is the running state of the loop:
\* the owned-core lists, the market flag, the orders, removed_from_market,
\* and the orders resolved so far, each with the list __get_renters
\* returned and the owned-core lists it left.
ExecuteOne(ex, actor) ==
    Eval(GetRenters(ex.res, ex.eff, actor, ex.orders[actor], ex.removed, FALSE),
         LAMBDA g :
            IF g.err THEN [ex EXCEPT !.res = g.res, !.eff = g.eff, !.err = TRUE]
            ELSE [res |-> g.res, eff |-> g.eff,
                  orders |-> DictDel(ex.orders, actor),
                  removed |-> Append(ex.removed, actor),
                  trace |-> Append(ex.trace,
                                   [actor |-> actor,
                                    quantity |-> ex.orders[actor],
                                    affected |-> g.affected,
                                    after |-> g.res]),
                  err |-> FALSE])

\* The loop of execute_orders from the low priority to the high.
RECURSIVE ExecuteLoopAscending(_, _)
ExecuteLoopAscending(ex, i) ==
    IF i > Len(actors) THEN ex
    ELSE IF NeedsCores(ex.orders, actors[Len(actors) + 1 - i])
    THEN Eval(ExecuteOne(ex, actors[Len(actors) + 1 - i]),
              LAMBDA ex2 : IF ex2.err THEN ex2 ELSE ExecuteLoopAscending(ex2, i + 1))
    ELSE ExecuteLoopAscending(ex, i + 1)

\* The loop of execute_orders (lines 142-147) from the i-th actor on.
RECURSIVE ExecuteLoop(_, _)
ExecuteLoop(ex, i) ==
    IF i > Len(actors) THEN ex
    ELSE IF NeedsCores(ex.orders, actors[i])
    THEN Eval(ExecuteOne(ex, actors[i]),
              LAMBDA ex2 : IF ex2.err THEN ex2 ELSE ExecuteLoop(ex2, i + 1))
    ELSE ExecuteLoop(ex, i + 1)

\* execute_orders without the final clear()
OrdersKept(left) == left

\* The orders execute_orders leaves when its loop ended with orders left
\* (line 149).
OrdersAfterExecute(left) == EmptyDict

ExecuteOrders ==
    \E ex \in {ExecuteLoop([res |-> res, eff |-> effective, orders |-> current_orders,
                            removed |-> <<>>, trace |-> <<>>, err |-> FALSE], 1)} :
        /\ ret' = Ret("execute_orders", None, 0, FALSE, ex.err, <<>>, ex.trace,
                      ex.orders, "None")
        /\ res' = ex.res
        /\ effective' = ex.eff
        /\ current_orders' = IF ex.err THEN ex.orders ELSE OrdersAfterExecute(ex.orders)
        /\ UNCHANGED <<cpuset, actors, actors_priority, actor_fallback, alloc,
                       max_alloc, policy, registered>>

ReclaimFromAll(quantity, simulation, requester) ==
    \E g \in {GetRenters(res, effective, requester, quantity, <<>>, simulation)} :
        /\ ret' = Ret("reclaim_from_all", requester, quantity, simulation, g.err,
                      IF g.err THEN <<>> ELSE g.affected, <<>>, EmptyDict, "None")
        /\ res' = g.res
        /\ effective' = g.eff
        /\ UNCHANGED <<cpuset, actors, actors_priority, actor_fallback, current_orders,
                       alloc, max_alloc, policy, registered>>

IsMarketEffective(recompute) ==
    /\ effective' = ComputeEffective(effective, recompute)
    /\ ret' = Ret("is_market_effective", None, 0, recompute, FALSE, <<>>, <<>>,
                  EmptyDict, effective')
    /\ UNCHANGED <<cpuset, actors, actors_priority, actor_fallback, current_orders,
                   res, alloc, max_alloc, policy, registered>>

\* The ratio of a static policy, a fraction.
RatioOf(s) == [num |-> policy[s].num, den |-> policy[s].den]

\* A call of unused_resources_count on the static policy of subset s.
CallUnusedResourcesCount(s) ==
    /\ policy[s].kind = "static"
    /\ ret' = Ret("unused_resources_count", s, 0, FALSE, FALSE, <<>>, <<>>, EmptyDict,
                  UnusedResourcesCount(GetCapacity(res, s), alloc[s], max_alloc[s],
                                       RatioOf(s)))
    /\ UNCHANGED <<cpuset, actors, actors_priority, actor_fallback, current_orders,
                   effective, res, alloc, max_alloc, policy, registered>>

\* A call of get_additional_res_count_required_for_quantity on the policy
\* of subset s, for a candidate virtual machine of that quantity.
CallAdditionalResCount(s, quantity) ==
    /\ ret' = Ret("get_additional_res_count_required_for_quantity", s, quantity,
                  FALSE, FALSE, <<>>, <<>>, EmptyDict,
                  IF policy[s].kind = "static"
                  THEN StaticAdditionalResCount(GetCapacity(res, s), alloc[s],
                                                max_alloc[s], RatioOf(s), quantity)
                  ELSE DynamicAdditionalResCount(GetCapacity(res, s), quantity))
    /\ UNCHANGED <<cpuset, actors, actors_priority, actor_fallback, current_orders,
                   effective, res, alloc, max_alloc, policy, registered>>

\* The environment: virtual machines come to and leave a subset, which
\* changes its allocation a and its largest single allocation m.
Deploy(s, a, m) ==
    /\ alloc' = [alloc EXCEPT ![s] = a]
    /\ max_alloc' = [max_alloc EXCEPT ![s] = m]
    /\ ret' = Ret("deploy", s, a, FALSE, FALSE, <<>>, <<>>, EmptyDict, "None")
    /\ UNCHANGED <<cpuset, actors, actors_priority, actor_fallback, current_orders,
                   effective, res, policy, registered>>

\* A call of get_cpus_with_weight(cpuset, distance_max, from_list, to_list,
\* exclude_max), from_list being the cores of subset A and to_list the cores
\* of subset B.  The record of the call keeps distance_max as its integer
\* argument, exclude_max as its boolean argument and the returned dict as
\* its value.
CallGetCpusWithWeight(distance_max, exclude_max) ==
    /\ ret' = Ret("get_cpus_with_weight", None, distance_max, exclude_max, FALSE,
                  <<>>, <<>>, EmptyDict,
                  GetCpusWithWeight(distance_max, res["A"], res["B"], exclude_max))
    /\ UNCHANGED <<cpuset, actors, actors_priority, actor_fallback, current_orders,
                   effective, res, alloc, max_alloc, policy, registered>>

\* A call of __transfer_resources(receiver, sender, amount, simulation).
\* The record of the call keeps the sender as its actor, the amount as its
\* integer argument, simulation as its boolean argument, the list returned
\* and the receiver as its value.  The callers never pass the sender as
\* receiver (lines 216 and 228).
CallTransferResources(receiver, sender, amount, simulation) ==
    /\ receiver # sender
    /\ \E t \in {TransferResources(res, receiver, sender, amount, simulation)} :
          /\ res' = t.res
          /\ ret' = Ret("__transfer_resources", sender, amount, simulation, FALSE,
                        t.affected, <<>>, EmptyDict, receiver)
    /\ UNCHANGED <<cpuset, actors, actors_priority, actor_fallback, current_orders,
                   effective, alloc, max_alloc, policy, registered>>

\* -------------------------------------------------------------- predictors
\* A series of usage values is a sequence of naturals.  A PredictorScrooge
\* is the record of its fields strike and last_value.  A value is None or a
\* number; the number mean(data) + strike * stdev(data) is kept as the
\* record of what determines it: the sum and the length of the series, the
\* strike, and dev = len * (sum of squares) - sum^2, stdev^2 being
\* dev / (len * (len - 1)); the integer n is n/1 + 0.
NoValue == [kind |-> "None", sum |-> 0, len |-> 1, strike |-> 0, dev |-> 0]
Number(n) == [kind |-> "number", sum |-> n, len |-> 1, strike |-> 0, dev |-> 0]
IsZero(v) == v.kind = "number" /\ v.sum = 0 /\ (v.strike = 0 \/ v.dev = 0)

StrikeInit == 5
StrikeMin == 3
StrikeMax == 6
StrikeStep == 1

PredictorScroogeInit == [strike |-> StrikeInit, last_value |-> NoValue]

RECURSIVE SumOf(_, _)
SumOf(data, n) == IF n = 0 THEN 0 ELSE SumOf(data, n - 1) + data[n]

RECURSIVE SumOfSquares(_, _)
SumOfSquares(data, n) ==
    IF n = 0 THEN 0 ELSE SumOfSquares(data, n - 1) + data[n] * data[n]

RECURSIVE MaxOf(_, _)
MaxOf(data, n) == IF n = 1 THEN data[1] ELSE Max(MaxOf(data, n - 1), data[n])

\* PredictorMax.predict (lines 36-40)
PredictorMaxPredict(data) ==
    IF data = <<>> THEN Number(0) ELSE Number(MaxOf(data, Len(data)))

\* line 59, for a series of two values at least
ScroogeValue(data, strike) ==
    [kind |-> "number",
     sum |-> SumOf(data, Len(data)), len |-> Len(data), strike |-> strike,
     dev |-> Len(data) * SumOfSquares(data, Len(data))
                - SumOf(data, Len(data)) * SumOf(data, Len(data))]

\* __is_quescient (lines 73-92) trains a network on the series and compares
\* two scores: its outcome is one of the answers stable and unstable, or
\* an exception (as the source stands, the placeholders config and
\* threshold hold a text and value/self.config of line 130 raises).
Outcomes == {"stable", "unstable", "raises"}

\* UpdateStrike without the bounds of lines 69 and 70.
UpdateStrikeNoBounds(strike, is_quescient) ==
    IF is_quescient THEN strike - StrikeStep ELSE strike + StrikeStep

\* __update_strike (lines 62-71): the strike after an answer.
UpdateStrike(strike, is_quescient) ==
    LET moved == IF is_quescient THEN strike - StrikeStep ELSE strike + StrikeStep
        raised == IF moved < StrikeMin THEN StrikeMin ELSE moved
    IN  IF raised > StrikeMax THEN StrikeMax ELSE raised

\* ScroogePredict keeping the default of an empty series as last value.
ScroogePredictKeepDefault(p, data, recompute, outcome) ==
    IF p.last_value = NoValue \/ recompute
    THEN IF data = <<>>
         THEN [predictor |-> [p EXCEPT !.last_value = Number(0)], value |-> Number(0),
               err |-> FALSE, judged |-> FALSE]
         ELSE IF outcome = "raises"
         THEN [predictor |-> p, value |-> NoValue, err |-> TRUE, judged |-> TRUE]
         ELSE LET strike == UpdateStrike(p.strike, outcome = "stable")
              IN  IF Len(data) < 2
                  THEN [predictor |-> [p EXCEPT !.strike = strike],
                        value |-> NoValue, err |-> TRUE, judged |-> TRUE]
                  ELSE [predictor |-> [strike |-> strike,
                                       last_value |-> ScroogeValue(data, strike)],
                        value |-> ScroogeValue(data, strike),
                        err |-> FALSE, judged |-> TRUE]
    ELSE [predictor |-> p, value |-> p.last_value, err |-> FALSE, judged |-> FALSE]

\* PredictorScrooge.predict (lines 53-60) on the predictor p: the predictor
\* after the call, the value returned, whether the call raised and whether
\* __is_quescient was called.  An empty series returns 0 and changes
\* nothing; an exception of __is_quescient leaves the strike as it was;
\* a series of one value has its strike updated and then statistics.stdev
\* raises (it needs two values), last_value being left as it was.
ScroogePredict(p, data, recompute, outcome) ==
    IF p.last_value = NoValue \/ recompute
    THEN IF data = <<>>
         THEN [predictor |-> p, value |-> Number(0), err |-> FALSE, judged |-> FALSE]
         ELSE IF outcome = "raises"
         THEN [predictor |-> p, value |-> NoValue, err |-> TRUE, judged |-> TRUE]
         ELSE LET strike == UpdateStrike(p.strike, outcome = "stable")
              IN  IF Len(data) < 2
                  THEN [predictor |-> [p EXCEPT !.strike = strike],
                        value |-> NoValue, err |-> TRUE, judged |-> TRUE]
                  ELSE [predictor |-> [strike |-> strike,
                                       last_value |-> ScroogeValue(data, strike)],
                        value |-> ScroogeValue(data, strike),
                        err |-> FALSE, judged |-> TRUE]
    ELSE [predictor |-> p, value |-> p.last_value, err |-> FALSE, judged |-> FALSE]

\* A call of predict(data, recompute) on the PredictorScrooge of the dynamic
\* policy of subset s.  The record of the call keeps the series as its
\* list, recompute as its boolean argument, the outcome of __is_quescient
\* when it was called as its trace, and the value returned.
CallScroogePredict(s, data, recompute, outcome) ==
    /\ policy[s].kind = "dynamic"
    /\ \E out \in {ScroogePredict(policy[s].predictor, data, recompute, outcome)} :
          /\ policy' = [policy EXCEPT ![s].predictor = out.predictor]
          /\ ret' = Ret("PredictorScrooge.predict", s, 0, recompute, out.err, data,
                        IF out.judged THEN <<outcome>> ELSE <<>>, EmptyDict, out.value)
    /\ UNCHANGED <<cpuset, actors, actors_priority, actor_fallback, current_orders,
                   effective, res, alloc, max_alloc, registered>>

\* A call of predict(data, recompute) on a PredictorMax, which has no state.
CallMaxPredict(data, recompute) ==
    /\ ret' = Ret("PredictorMax.predict", None, 0, recompute, FALSE, data, <<>>,
                  EmptyDict, PredictorMaxPredict(data))
    /\ UNCHANGED <<cpuset, actors, actors_priority, actor_fallback, current_orders,
                   effective, res, alloc, max_alloc, policy, registered>>

\* --------------------------------------------------------- specifications
Priorities == {5, 10, 20}

Static(ratio) == [kind |-> "static", ratio |-> ratio]
Dynamic == [kind |-> "dynamic", ratio |-> 0]

\* a topology of n cores
Topology(n) == [i \in 1..n |-> i]

NoCall == Ret("init", None, 0, FALSE, FALSE, <<>>, <<>>, EmptyDict, "None")

\* The market after construction (lines 33-40).
InitMarket ==
    /\ actors = <<>>
    /\ actors_priority = EmptyDict
    /\ actor_fallback = None
    /\ current_orders = EmptyDict
    /\ effective = "None"
    /\ registered = <<>>
    /\ ret = NoCall

\* Subsets that own no core and serve no virtual machine yet.
InitSubsets ==
    /\ res = [s \in Subsets |-> <<>>]
    /\ policy = [s \in Subsets |-> Static(1)]
    /\ alloc = [s \in Subsets |-> 0]
    /\ max_alloc = [s \in Subsets |-> 0]

\* Registration: actors come to and leave the market.
InitRegistry == InitMarket /\ InitSubsets /\ cpuset = Topology(NCores)

NextRegistry ==
    \/ \E a \in Subsets, p \in Priorities : RegisterActor(a, p)
    \/ \E a \in Subsets : RemoveActor(a)

SpecRegistry == InitRegistry /\ [][NextRegistry]_vars

\* Arbitration activity: virtual machines come and go in three registered
\* subsets and the market is asked whether it is effective.
MaxAlloc == 2           \* largest allocation of one subset
EffCores == 5           \* largest topology the activity is asked about

InitEffective ==
    /\ \E n \in 1..EffCores : cpuset = Topology(n)
    /\ actors = <<"A", "B", "C">>
    /\ actors_priority = [s \in Subsets |-> IF s = "A" THEN 20
                                            ELSE IF s = "B" THEN 10 ELSE 5]
    /\ actor_fallback = "C"
    /\ registered = <<"A", "B", "C">>
    /\ current_orders = EmptyDict
    /\ effective = "None"
    /\ ret = NoCall
    /\ InitSubsets

NextEffective ==
    \/ \E s \in Subsets, a \in 0..MaxAlloc : \E m \in {Min(a, 1), a} : Deploy(s, a, m)
    \/ \E recompute \in BOOLEAN : IsMarketEffective(recompute)

SpecEffective == InitEffective /\ [][NextEffective]_vars

\* Trade: three registered subsets that own cores and serve virtual
\* machines.  In the first scenario the policies are static, the fallback
\* actor C oversubscribing twice; in the second B has the dynamic policy
\* and C serves two virtual machines of one vCPU on its two cores.
Scenarios ==
    { [policy |-> [s \in Subsets |-> IF s = "A" THEN Static(1) ELSE Static(2)],
       alloc |-> [s \in Subsets |-> IF s = "B" THEN 0 ELSE 1],
       max_alloc |-> [s \in Subsets |-> IF s = "B" THEN 0 ELSE 1],
       res |-> [s \in Subsets |-> IF s = "A" THEN <<1>>
                                  ELSE IF s = "C" THEN <<2>> ELSE <<>>]],
      [policy |-> [s \in Subsets |-> IF s = "B" THEN Dynamic ELSE Static(1)],
       alloc |-> [s \in Subsets |-> IF s = "A" THEN 1 ELSE IF s = "B" THEN 0 ELSE 2],
       max_alloc |-> [s \in Subsets |-> IF s = "B" THEN 0 ELSE 1],
       res |-> [s \in Subsets |-> IF s = "A" THEN <<1>>
                                  ELSE IF s = "C" THEN <<2, 3>> ELSE <<>>]] }

InitTrade ==
    /\ cpuset = Topology(NCores)
    /\ actors = <<"A", "B", "C">>
    /\ actors_priority = [s \in Subsets |-> IF s = "A" THEN 20
                                            ELSE IF s = "B" THEN 10 ELSE 5]
    /\ actor_fallback = "C"
    /\ registered = <<"A", "B", "C">>
    /\ current_orders = EmptyDict
    /\ effective = "None"
    /\ ret = NoCall
    /\ \E sc \in Scenarios : /\ policy = sc.policy
                             /\ alloc = sc.alloc
                             /\ max_alloc = sc.max_alloc
                             /\ res = sc.res

\* The cycle of orders: subsets place orders, the market executes them, and
\* a subset that serves no virtual machine leaves the market (removal
\* mirrors the lifecycle of the pools of virtual machines).
NextOrders ==
    \/ \E a \in Subsets, q \in (-1)..MaxQuantity : PassOrder(a, q)
    \/ ExecuteOrders
    \/ \E a \in Subsets : alloc[a] = 0 /\ RemoveActor(a)

SpecOrders == InitTrade /\ [][NextOrders]_vars

\* Reclaims, simulated or not, for a subset or for a subset to come.
NextReclaim ==
    \E q \in 0..MaxQuantity, simulation \in BOOLEAN, r \in Subsets \cup {None} :
        ReclaimFromAll(q, simulation, r)

SpecReclaim == InitTrade /\ [][NextReclaim]_vars

\* The operations that move cores, interleaved: orders of the largest
\* quantity, their execution, and reclaims that are not simulated.
NextMarket ==
    \/ \E a \in Subsets : PassOrder(a, MaxQuantity)
    \/ ExecuteOrders
    \/ \E q \in 1..MaxQuantity, r \in Subsets \cup {None} : ReclaimFromAll(q, FALSE, r)

SpecMarket == InitTrade /\ [][NextMarket]_vars

\* Transfers: the transfer primitive is applied to the subsets of the trade
\* scenarios, for a receiver or for none, with the amounts the tiers of
\* __get_renters can ask for, 0 included (line 220 with an availability of
\* 0).
NextTransfer ==
    \E receiver \in Subsets \cup {None}, sender \in Subsets,
       amount \in 0..MaxQuantity, simulation \in BOOLEAN :
        CallTransferResources(receiver, sender, amount, simulation)

SpecTransfer == InitTrade /\ [][NextTransfer]_vars

\* Policy: the subset A, with any capacity, allocation and largest single
\* allocation, under a static policy of ratio 1, 1.5, 2, ... or under the
\* dynamic policy, is asked for its unused resources and for the resources
\* a candidate virtual machine needs.
MaxCapacity == 4        \* largest capacity of the subset
MaxPolicyAlloc == 6     \* largest allocation of the subset
MaxRatioHalves == 6     \* largest static ratio, in halves
MaxRequest == 3         \* largest quantity of a candidate virtual machine

\* a static policy of ratio num/den
StaticRatio(num, den) == [kind |-> "static", num |-> num, den |-> den]

InitPolicy ==
    /\ InitMarket
    /\ cpuset = Topology(MaxCapacity)
    /\ \E c \in 0..MaxCapacity :
          res = [s \in Subsets |-> IF s = "A" THEN Topology(c) ELSE <<>>]
    /\ \E a \in 0..MaxPolicyAlloc : \E m \in (IF a = 0 THEN {0} ELSE 1..a) :
          /\ alloc = [s \in Subsets |-> IF s = "A" THEN a ELSE 0]
          /\ max_alloc = [s \in Subsets |-> IF s = "A" THEN m ELSE 0]
    /\ \E p \in {StaticRatio(h, 2) : h \in 2..MaxRatioHalves} \cup {Dynamic} :
          policy = [s \in Subsets |-> IF s = "A" THEN p ELSE Static(1)]

NextPolicy ==
    \/ CallUnusedResourcesCount("A")
    \/ \E q \in 0..MaxRequest : CallAdditionalResCount("A", q)

SpecPolicy == InitPolicy /\ [][NextPolicy]_vars

\* Weighting: get_cpus_with_weight is applied to any two lists of cores of
\* the topology, disjoint or not, with or without repeated cores, for every
\* ceiling from 0 (every distance is beyond it) to above the largest
\* distance of the topology, exclusion enabled or not.
MaxListLen == 2         \* longest from_list and to_list
MaxCeiling == 3         \* largest distance_max

\* the lists of at most MaxListLen cores of the topology
CoreLists == UNION {[1..n -> 1..NCores] : n \in 0..MaxListLen}

InitWeight ==
    /\ InitMarket
    /\ cpuset = Topology(NCores)
    /\ \E from_list \in CoreLists, to_list \in CoreLists :
          res = [s \in Subsets |-> IF s = "A" THEN from_list
                                   ELSE IF s = "B" THEN to_list ELSE <<>>]
    /\ policy = [s \in Subsets |-> Static(1)]
    /\ alloc = [s \in Subsets |-> 0]
    /\ max_alloc = [s \in Subsets |-> 0]

NextWeight ==
    \E distance_max \in 0..MaxCeiling, exclude_max \in BOOLEAN :
        CallGetCpusWithWeight(distance_max, exclude_max)

SpecWeight == InitWeight /\ [][NextWeight]_vars

\* Forecast: the PredictorScrooge of the dynamic policy of subset A and a
\* PredictorMax are asked to predict from any series, empty or not, with
\* and without recompute, whatever __is_quescient answers.
MaxSeriesLen == 2       \* longest series

Usages == {0, 2}

Series == UNION {[1..n -> Usages] : n \in 0..MaxSeriesLen}

\* the dynamic policy with the predictor it creates (line 244)
DynamicScrooge == [kind |-> "dynamic", ratio |-> 0, predictor |-> PredictorScroogeInit]

InitPredictor ==
    /\ InitMarket
    /\ cpuset = Topology(NCores)
    /\ res = [s \in Subsets |-> <<>>]
    /\ policy = [s \in Subsets |-> IF s = "A" THEN DynamicScrooge ELSE Static(1)]
    /\ alloc = [s \in Subsets |-> 0]
    /\ max_alloc = [s \in Subsets |-> 0]

NextPredictor ==
    \/ \E data \in Series, recompute \in BOOLEAN, outcome \in Outcomes :
          CallScroogePredict("A", data, recompute, outcome)
    \/ \E data \in Series, recompute \in BOOLEAN : CallMaxPredict(data, recompute)

SpecPredictor == InitPredictor /\ [][NextPredictor]_vars

\* ------------------------------------------------------------------ claims
\* the position of an actor in the order of registration
RegistrationRank(a) == CHOOSE i \in 1..Len(registered) : registered[i] = a

PrioritiesOf(list) == [i \in 1..Len(list) |-> actors_priority[list[i]]]

\* the allocation of the registered actors, summed
TotalAllocation ==
    LET RECURSIVE Sum(_)
        Sum(S) == IF S = {} THEN 0
                  ELSE LET a == CHOOSE x \in S : TRUE IN alloc[a] + Sum(S \ {a})
    IN  Sum({actors[i] : i \in 1..Len(actors)})

\* the cores of a list
Range(list) == {list[i] : i \in 1..Len(list)}

\* how many times a core is owned, over all the subsets
OwnedCount(r, c) ==
    Cardinality(UNION {{<<s, i>> : i \in {j \in 1..Len(r[s]) : r[s][j] = c}} :
                          s \in Subsets})

\* how many times a core is in the unallocated pool
PoolCount(r, c) ==
    Cardinality({i \in 1..Len(SubsetManagerGetAvailable(r)) :
                    SubsetManagerGetAvailable(r)[i] = c})

\* C1: whatever orders are executed and whatever reclaims that are not
\* simulated are made, every core of the topology is either in the
\* unallocated pool or owned by exactly one subset, once: the owned cores
\* and the pool together are the cores of the topology, no core is created,
\* lost or owned twice.
C1_Conservation ==
    /\ \A s \in Subsets : Range(res[s]) \subseteq Range(cpuset)
    /\ Range(SubsetManagerGetAvailable(res)) \subseteq Range(cpuset)
    /\ \A c \in Range(cpuset) : OwnedCount(res, c) + PoolCount(res, c) = 1

\* C1 witness: an execution resolved two orders, the second one with a
\* core that was not in the pool, taken from another subset and now owned
\* by the requester.
C1_Witness ==
    /\ ret.op = "execute_orders" /\ ~ret.err
    /\ Len(ret.trace) >= 2
    /\ \E c \in Range(ret.trace[2].affected) :
          /\ c \notin Range(SubsetManagerGetAvailable(ret.trace[1].after))
          /\ c \in Range(res[ret.trace[2].actor])

\* C2: a simulated reclaim_from_all leaves the owned cores of every subset,
\* and so the unallocated pool, as they were, whatever the quantity and the
\* requester (None included).
C2_SimulationNoOp ==
    [][(ret'.op = "reclaim_from_all" /\ ret'.flag)
        => /\ res' = res
           /\ SubsetManagerGetAvailable(res') = SubsetManagerGetAvailable(res)]_vars

\* C2 witness: a simulated reclaim for a subset returned a core of the
\* fallback actor although the fallback actor has nothing available: the
\* third tier designated it, and the fallback actor still owns it.
C2_Witness ==
    /\ ret.op = "reclaim_from_all" /\ ret.flag /\ ~ret.err
    /\ ret.actor \notin {None, actor_fallback}
    /\ ret.arg = Len(ret.affected)
    /\ policy[actor_fallback].kind = "static"
    /\ GetCapacity(res, actor_fallback) * policy[actor_fallback].ratio
          <= alloc[actor_fallback]
    /\ \E c \in Range(ret.affected) : c \in Range(res[actor_fallback])

\* C3: an execute_orders pass or a reclaim that is not simulated
\* never takes the fallback actor from a capacity of at least its largest
\* single allocation to a capacity below it.
C3_FallbackFloor ==
    [][(/\ \/ ret'.op = "execute_orders"
           \/ ret'.op = "reclaim_from_all" /\ ~ret'.flag
        /\ actor_fallback # None
        /\ GetCapacity(res, actor_fallback) >= max_alloc[actor_fallback])
        => GetCapacity(res', actor_fallback) >= max_alloc[actor_fallback]]_vars

\* C4, with the bounds included: once is_market_effective has returned
\* true, a recomputing call returns true whenever the total allocation is
\* between 80% and 100%
\* of the core count, bounds included, and returns false only when the
\* total allocation is below 80% of the core count.
C4_HysteresisBoundsIncluded ==
    [][(effective = "True" /\ ret'.op = "is_market_effective" /\ ret'.flag)
        => /\ (5 * TotalAllocation >= 4 * Len(cpuset) /\ TotalAllocation <= Len(cpuset))
                => ret'.value = "True"
           /\ ret'.value = "False" => 5 * TotalAllocation < 4 * Len(cpuset)]_vars

\* C4, with the strict lower bound: once is_market_effective has returned
\* true, a recomputing call returns true exactly when the total allocation
\* is strictly above
\* 80% of the core count (so also between 80% excluded and 100%), and false
\* exactly when it is at or below 80%.
C4_Hysteresis ==
    [][(effective = "True" /\ ret'.op = "is_market_effective" /\ ret'.flag)
        => (ret'.value = "True" <=> 5 * TotalAllocation > 4 * Len(cpuset))]_vars

\* C4 witness: a recomputing call has returned true although the total
\* allocation does not exceed the core count: the flag was kept.
C4_Witness ==
    /\ ret.op = "is_market_effective" /\ ret.flag /\ ret.value = "True"
    /\ TotalAllocation <= Len(cpuset)
    /\ 5 * TotalAllocation > 4 * Len(cpuset)

\* C5: the actor list is in non-increasing priority order, actors of equal
\* priority in the order of their registration; registering the priorities
\* 10, 5, 20 in that order gives the order 20, 10, 5.
C5_PriorityOrder ==
    /\ \A i, j \in 1..Len(actors) :
          i < j => \/ actors_priority[actors[i]] > actors_priority[actors[j]]
                   \/ /\ actors_priority[actors[i]] = actors_priority[actors[j]]
                      /\ RegistrationRank(actors[i]) < RegistrationRank(actors[j])
    /\ PrioritiesOf(registered) = <<10, 5, 20>> => PrioritiesOf(actors) = <<20, 10, 5>>

\* C5 witness: the priorities 10, 5, 20 were registered in that order.
C5_Witness ==
    /\ ret.op = "register_actor"
    /\ PrioritiesOf(registered) = <<10, 5, 20>>
    /\ PrioritiesOf(actors) = <<20, 10, 5>>

\* C6: the fallback actor is the last entry of the actor list
\* when an actor is registered, and None when none is.
C6_FallbackIsLast ==
    IF actors = <<>> THEN actor_fallback = None
    ELSE actor_fallback = actors[Len(actors)]

\* C7: pass_order for an actor that has a pending order, of any value,
\* raises and leaves the pending orders as they were; a pass_order that
\* does not raise adds the order of an actor that had none and leaves the
\* other orders as they were.
C7_DuplicateOrderFails ==
    [][ret'.op = "pass_order"
        => /\ \/ ret'.err /\ current_orders' = current_orders
              \/ \A a \in DOMAIN current_orders : \A q \in (-1)..MaxQuantity :
                    ~PassOrder(a, q)
           /\ ret'.err => current_orders' = current_orders
           /\ ~ret'.err
                 => /\ \E a \in Subsets \ DOMAIN current_orders :
                          DOMAIN current_orders' = DOMAIN current_orders \cup {a}
                    /\ \A a \in DOMAIN current_orders :
                          current_orders'[a] = current_orders[a]]_vars

\* C7 witness: pass_order raised when the only pending order was one of
\* value 0, which is still there.
C7_Witness ==
    /\ ret.op = "pass_order" /\ ret.err
    /\ DOMAIN current_orders = {"A"}
    /\ current_orders["A"] = 0

\* C8: when execute_orders returns no order is pending, and a pass_order
\* that follows does not raise.
C8_OrdersCleared ==
    [][/\ (ret'.op = "execute_orders" /\ ~ret'.err) => current_orders' = EmptyDict
       /\ (ret.op = "execute_orders" /\ ~ret.err /\ ret'.op = "pass_order")
             => (~ret'.err /\ current_orders' # EmptyDict)]_vars

\* C8 witness: execute_orders returned after an order was resolved in part,
\* leaving an order of 0 and a positive order of an actor that is not
\* registered any more, and nothing is pending.
C8_Witness ==
    /\ ret.op = "execute_orders" /\ ~ret.err
    /\ current_orders = EmptyDict
    /\ \E k \in 1..Len(ret.trace) :
          Len(ret.trace[k].affected) < ret.trace[k].quantity
    /\ \E a \in DOMAIN ret.left : ret.left[a] = 0
    /\ \E a \in DOMAIN ret.left : ret.left[a] > 0 /\ ~InList(a, actors)

\* C9: in an execute_orders pass, the cores an actor owns when its order
\* has been resolved are still its own after every later order of the pass
\* and when the pass ends.
C9_ServedActorKeepsCores ==
    ret.op = "execute_orders"
      => \A k \in 1..Len(ret.trace) :
            /\ \A j \in (k + 1)..Len(ret.trace) :
                  Range(ret.trace[k].after[ret.trace[k].actor])
                     \subseteq Range(ret.trace[j].after[ret.trace[k].actor])
            /\ Range(ret.trace[k].after[ret.trace[k].actor])
                  \subseteq Range(res[ret.trace[k].actor])

\* C9 witness: the second order of a pass was resolved with a core of
\* another subset while the actor served first owned more cores than it
\* needs.
C9_Witness ==
    /\ ret.op = "execute_orders" /\ ~ret.err
    /\ Len(ret.trace) >= 2
    /\ \E c \in Range(ret.trace[2].affected) :
          c \notin Range(SubsetManagerGetAvailable(ret.trace[1].after))
    /\ policy[ret.trace[1].actor].kind = "static"
    /\ Len(ret.trace[1].after[ret.trace[1].actor]) * policy[ret.trace[1].actor].ratio
          > alloc[ret.trace[1].actor]

\* the pool an order of a pass found: the one the order before it left
PoolBefore(r, trace, k) ==
    SubsetManagerGetAvailable(IF k = 1 THEN r ELSE trace[k - 1].after)

\* C10: execute_orders resolves the positive orders of the registered
\* actors, those and no other, an actor of higher priority before one of
\* lower priority; each order takes from the pool it finds as many cores as
\* it asks for, or all of them, so the actor of higher priority is served
\* from the pool first; without a positive order no core moves.
C10_DescendingPriority ==
    [][ret'.op = "execute_orders"
        => /\ \A k, j \in 1..Len(ret'.trace) :
                 actors_priority[ret'.trace[k].actor]
                    > actors_priority[ret'.trace[j].actor] => k < j
           /\ \A k \in 1..Len(ret'.trace) :
                 /\ InList(ret'.trace[k].actor, actors)
                 /\ ret'.trace[k].actor \in DOMAIN current_orders
                 /\ ret'.trace[k].quantity = current_orders[ret'.trace[k].actor]
                 /\ ret'.trace[k].quantity > 0
                 /\ \A j \in 1..Len(ret'.trace) :
                       ret'.trace[j].actor = ret'.trace[k].actor => j = k
                 /\ Cardinality(Range(PoolBefore(res, ret'.trace, k))
                                   \cap Range(ret'.trace[k].after[ret'.trace[k].actor]))
                       = Min(ret'.trace[k].quantity,
                             Len(PoolBefore(res, ret'.trace, k)))
           /\ ~ret'.err
                 => \A a \in Range(actors) :
                       (a \in DOMAIN current_orders /\ current_orders[a] > 0)
                          => \E k \in 1..Len(ret'.trace) : ret'.trace[k].actor = a
           /\ ret'.trace = <<>> => res' = res]_vars

\* C10 witness: two positive orders were resolved in one pass, the first
\* one took a core and left the pool empty, the second one asked for more
\* than it got; an order that was not positive was left aside.
C10_Witness ==
    /\ ret.op = "execute_orders" /\ ~ret.err
    /\ Len(ret.trace) = 2
    /\ ret.trace[1].affected # <<>>
    /\ SubsetManagerGetAvailable(ret.trace[1].after) = <<>>
    /\ Len(ret.trace[2].affected) < ret.trace[2].quantity
    /\ \E a \in DOMAIN ret.left : ret.left[a] <= 0

\* C11: reclaim_from_all and execute_orders never raise, whatever
\* the quantity (0 or more), the requester (None included) and the market,
\* also when fewer cores than asked for can be obtained.
C11_NeverRaises ==
    (ret.op \in {"reclaim_from_all", "execute_orders"} /\ ret.arg >= 0) => ~ret.err

\* C12: a simulated reclaim_from_all returns the list of cores the
\* reclaim that is not simulated returns from the same state, for the same
\* requester and quantity.
C12_DryRunFidelity ==
    [][(ret'.op = "reclaim_from_all" /\ ret'.flag /\ ~ret'.err)
        => ret'.affected
             = GetRenters(res, effective, ret'.actor, ret'.arg, <<>>, FALSE).affected]_vars

\* the subset a policy call was made on, as numbers
CallCapacity == GetCapacity(res, ret.actor)
CallRatio == RatioOf(ret.actor)

\* C13: the count u unused_resources_count returns, for a subset whose
\* capacity is at least its largest single allocation, leaves capacity - u
\* at least that allocation; with ratio 2, capacity 4, allocation 6 and a
\* largest single allocation of 3 it is at most 1.
C13_UnusedKeepsFloor ==
    (ret.op = "unused_resources_count" /\ CallCapacity >= max_alloc[ret.actor])
       => /\ CallCapacity - ret.value >= max_alloc[ret.actor]
          /\ (/\ CallRatio.num = 2 * CallRatio.den
              /\ CallCapacity = 4
              /\ alloc[ret.actor] = 6
              /\ max_alloc[ret.actor] = 3) => ret.value <= 1

\* C13 witness: the call was made with ratio 2, capacity 4, allocation 6
\* and a largest single allocation of 3, and returned 1.
C13_Witness ==
    /\ ret.op = "unused_resources_count"
    /\ CallRatio.num = 2 * CallRatio.den
    /\ CallCapacity = 4
    /\ alloc[ret.actor] = 6
    /\ max_alloc[ret.actor] = 3
    /\ ret.value = 1

\* the smallest count of cores that gives, at the ratio of the call, the
\* virtual resources the request misses: ceil(missing / ratio), 0 when
\* nothing is missing
MissingCores ==
    CHOOSE k \in 0..(ret.arg + alloc[ret.actor]) :
       /\ (CallCapacity + k) * CallRatio.num - alloc[ret.actor] * CallRatio.den
             >= ret.arg * CallRatio.den
       /\ \A j \in 0..(k - 1) :
             (CallCapacity + j) * CallRatio.num - alloc[ret.actor] * CallRatio.den
                < ret.arg * CallRatio.den

\* C14: the count m the static policy returns for a candidate of quantity q
\* is not negative, gives enough virtual resources, (capacity + m) * ratio
\* - allocation >= q, and enough cores for the largest single allocation,
\* the candidate included; it is the larger of ceil(missing / ratio) (0 when
\* nothing is missing) and projected maximum - capacity.
C14_StaticAdditional ==
    (ret.op = "get_additional_res_count_required_for_quantity"
        /\ policy[ret.actor].kind = "static")
       => /\ ret.value >= 0
          /\ (CallCapacity + ret.value) * CallRatio.num
                - alloc[ret.actor] * CallRatio.den >= ret.arg * CallRatio.den
          /\ CallCapacity + ret.value >= Max(max_alloc[ret.actor], ret.arg)
          /\ ret.value = Max(MissingCores,
                             Max(max_alloc[ret.actor], ret.arg) - CallCapacity)

\* C14 witness: virtual resources were missing, not a whole number of
\* cores of them, and the count returned is the rounded-up number of cores,
\* more than the largest single allocation asks for.
C14_Witness ==
    /\ ret.op = "get_additional_res_count_required_for_quantity"
    /\ policy[ret.actor].kind = "static"
    /\ ret.value > 0
    /\ ret.value > Max(max_alloc[ret.actor], ret.arg) - CallCapacity
    /\ (CallCapacity + ret.value) * CallRatio.num - alloc[ret.actor] * CallRatio.den
          > ret.arg * CallRatio.den

\* C15: the count r the dynamic policy returns for a candidate of
\* quantity q gives capacity + r at least the largest single allocation,
\* the candidate included.
C15_DynamicAdditional ==
    (ret.op = "get_additional_res_count_required_for_quantity"
        /\ policy[ret.actor].kind = "dynamic")
       => CallCapacity + ret.value >= Max(max_alloc[ret.actor], ret.arg)

\* C16: when the flag is false or undefined, a recomputing call of
\* is_market_effective returns true exactly when the summed allocation of
\* the registered actors exceeds the core count, and false otherwise; when
\* the flag is defined and recompute is false, the call returns the cached
\* flag and leaves it unchanged, whatever the allocations are.
C16_ActivationThreshold ==
    [][ret'.op = "is_market_effective"
        => /\ (effective \in {"False", "None"} /\ ret'.flag)
                => /\ ret'.value = (IF TotalAllocation > Len(cpuset) THEN "True" ELSE "False")
                   /\ effective' = ret'.value
           /\ (effective # "None" /\ ~ret'.flag)
                => /\ ret'.value = effective
                   /\ effective' = effective]_vars

\* C16 witness: a recomputing call has returned false although the total
\* allocation equals the core count, which only the margin of 1.0 gives:
\* the flag was false or undefined, and the threshold is strict.
C16_Witness ==
    /\ ret.op = "is_market_effective" /\ ret.flag /\ ret.value = "False"
    /\ TotalAllocation = Len(cpuset)

\* the entries of the dict a call of get_cpus_with_weight returned for core c
EntriesOf(c) == {i \in 1..Len(ret.value) : ret.value[i].id = c}

\* C17: the result of get_cpus_with_weight never holds a core that is in
\* both from_list and to_list, whatever the lists, the ceiling and
\* exclude_max; every other core of from_list is in the result exactly once
\* (and the result holds no core that is not in from_list).
C17_WeightingExclusion ==
    ret.op = "get_cpus_with_weight"
       => /\ \A c \in Range(res["A"]) \cap Range(res["B"]) : EntriesOf(c) = {}
          /\ \A c \in Range(res["A"]) \ Range(res["B"]) : Cardinality(EntriesOf(c)) = 1
          /\ \A i \in 1..Len(ret.value) : ret.value[i].id \in Range(res["A"])

\* C17 witness: a call whose from_list holds a core of to_list and a core
\* that is not in to_list; only the second is in the result.
C17_Witness ==
    /\ ret.op = "get_cpus_with_weight"
    /\ Range(res["A"]) \cap Range(res["B"]) # {}
    /\ Range(res["A"]) \ Range(res["B"]) # {}
    /\ Len(ret.value) = 1

\* the positions of to_list whose distance to core c is counted when
\* exclusion is enabled: those below the ceiling
Counted(c) == {j \in 1..Len(res["B"]) : Distance(res["B"][j], c) < ret.arg}

\* the distances of core c to the positions J of to_list, summed
RECURSIVE SumDistances(_, _)
SumDistances(c, J) ==
    IF J = {} THEN 0
    ELSE LET j == CHOOSE x \in J : TRUE
         IN  Distance(res["B"][j], c) + SumDistances(c, J \ {j})

Scrooge == policy["A"].predictor

\* C19: the strike of PredictorScrooge is within [3, 6] after any sequence
\* of predict calls, whatever __is_quescient answers at each call; a
\* recomputing call (nothing cached, or recompute requested) on a series
\* that is not empty, __is_quescient giving an answer, moves the strike by
\* exactly one step, down when stable and up when unstable, or leaves it at
\* the bound it would cross; any other call leaves it as it was.
C19_StrikeBounded ==
    [][ret'.op = "PredictorScrooge.predict"
        => /\ Scrooge.strike \in StrikeMin..StrikeMax
           /\ Scrooge'.strike \in StrikeMin..StrikeMax
           /\ IF (Scrooge.last_value = NoValue \/ ret'.flag) /\ ret'.affected # <<>>
                    /\ ret'.trace # <<"raises">>
              THEN /\ ret'.trace \in {<<"stable">>, <<"unstable">>}
                   /\ ret'.trace = <<"stable">>
                        => Scrooge'.strike = (IF Scrooge.strike = StrikeMin THEN StrikeMin
                                              ELSE Scrooge.strike - 1)
                   /\ ret'.trace = <<"unstable">>
                        => Scrooge'.strike = (IF Scrooge.strike = StrikeMax THEN StrikeMax
                                              ELSE Scrooge.strike + 1)
              ELSE Scrooge'.strike = Scrooge.strike]_vars

\* C19 witness: a call judged stable has left the strike at its lower
\* bound, the strike having come down from 5.
C19_Witness ==
    /\ ret.op = "PredictorScrooge.predict" /\ ret.trace = <<"stable">>
    /\ Scrooge.strike = StrikeMin
    /\ Scrooge.last_value # NoValue /\ Scrooge.last_value.strike = StrikeMin

\* C20: predict on an empty series does not raise; PredictorMax returns 0,
\* and so does a recomputing PredictorScrooge (nothing cached, or recompute
\* requested), whose strike and cached last value are left as they were: the
\* default is not cached, and the call with data that follows an empty call
\* on a predictor with nothing cached recomputes, recompute requested or
\* not.
C20_EmptySeriesDefault ==
    [][/\ (ret'.op = "PredictorMax.predict" /\ ret'.affected = <<>>)
            => ~ret'.err /\ IsZero(ret'.value)
       /\ (ret'.op = "PredictorScrooge.predict" /\ ret'.affected = <<>>)
            => /\ ~ret'.err
               /\ Scrooge' = Scrooge
               /\ (Scrooge.last_value = NoValue \/ ret'.flag) => IsZero(ret'.value)
       /\ (ret.op = "PredictorScrooge.predict" /\ ret.affected = <<>>
             /\ IsZero(ret.value) /\ Scrooge.last_value = NoValue
             /\ ret'.op = "PredictorScrooge.predict" /\ ret'.affected # <<>>)
            => ret'.trace # <<>>]_vars

\* C20 witness: a recomputing call of PredictorScrooge on an empty series
\* has returned 0 while the predictor keeps a moved strike and the value it
\* had cached, which is not 0.
C20_Witness ==
    /\ ret.op = "PredictorScrooge.predict" /\ ret.flag /\ ~ret.err
    /\ ret.affected = <<>> /\ IsZero(ret.value)
    /\ Scrooge.last_value.kind = "number" /\ ~IsZero(Scrooge.last_value)
    /\ Scrooge.strike # StrikeInit

\* the subset that owns core c in the owned-core lists r
OwnerIn(r, c) == CHOOSE s \in Subsets : c \in Range(r[s])

\* the position of an actor in the actor list
RankOf(a) == CHOOSE i \in 1..Len(actors) : actors[i] = a

\* The tiers of one resolution, seen from outside: before and after are the
\* owned-core lists the resolution found and left, affected the list it
\* returned, ignored the actors served earlier in the pass.
\*  - the returned list starts with the cores of the pool, as many as the
\*    quantity asks for or all of them, and no pool core comes later;
\*  - a subset other than the requester has lost a core only if the pool
\*    held fewer cores than the quantity and all of them went to the
\*    requester;
\*  - the cores of the donors come from the low priority to the high, the
\*    cores stolen from the fallback actor last;
\*  - the fallback actor has lost more than its availability only if every
\*    peer with an availability gave all of it (or all its cores) and the
\*    availabilities together did not meet what the pool left unmet.
TierOrder(before, eff, after, actor, quantity, affected, ignored) ==
    LET pool == SubsetManagerGetAvailable(before)
        taken == Min(quantity, Len(pool))
        Lost(s) == Len(before[s]) - Len(after[s])
        Avail(s) == GetAvailable(before, eff, s).value
        Peers == {s \in Range(actors) : s # actor /\ s \notin ignored}
        Givers == {s \in Peers : Avail(s) >= 0}
        RECURSIVE SumAvail(_)
        SumAvail(S) == IF S = {} THEN 0
                       ELSE LET s == CHOOSE x \in S : TRUE
                            IN  Avail(s) + SumAvail(S \ {s})
    IN  /\ \A i \in 1..Len(affected) : (i <= taken) <=> affected[i] \in Range(pool)
        /\ (\E s \in Subsets \ {actor} : Lost(s) > 0)
              => /\ Len(pool) < quantity
                 /\ Range(pool) \subseteq Range(after[actor])
        /\ \A i, j \in (taken + 1)..Len(affected) :
              i < j => \/ RankOf(OwnerIn(before, affected[i]))
                             >= RankOf(OwnerIn(before, affected[j]))
                       \/ OwnerIn(before, affected[j]) = actor_fallback
        /\ (/\ actor_fallback # None
            /\ actor_fallback # actor
            /\ Lost(actor_fallback)
                  > (IF actor_fallback \in Givers THEN Avail(actor_fallback) ELSE 0))
              => /\ \A s \in Givers : Lost(s) >= Min(Avail(s), Len(before[s]))
                 /\ SumAvail(Givers) < quantity - taken

\* C21: in a reclaim that is not simulated and in the resolution of an
\* order, for a requester, the unallocated pool comes first, the peers from
\* the low priority to the high after the pool is exhausted, the steal from
\* the fallback actor after the peers were asked and quantity remains: no
\* core leaves a subset while the pool holds a core and the quantity is
\* unmet.
C21_TierOrder ==
    [][/\ (ret'.op = "reclaim_from_all" /\ ~ret'.flag /\ ~ret'.err /\ ret'.actor # None)
            => TierOrder(res, effective, res', ret'.actor, ret'.arg, ret'.affected, {})
       /\ ret'.op = "execute_orders"
            => \A k \in 1..Len(ret'.trace) :
                  TierOrder(IF k = 1 THEN res ELSE ret'.trace[k - 1].after, effective,
                            ret'.trace[k].after, ret'.trace[k].actor,
                            ret'.trace[k].quantity, ret'.trace[k].affected,
                            {ret'.trace[j].actor : j \in 1..(k - 1)})]_vars

\* C21 witness: a reclaim that is not simulated gave its requester the
\* quantity it asked for, two cores or more, the pool is empty and a subset
\* that serves virtual machines owns no core any more: a donor gave after
\* the pool did.
C21_Witness ==
    /\ ret.op = "reclaim_from_all" /\ ~ret.flag /\ ~ret.err /\ ret.actor # None
    /\ ret.arg >= 2 /\ Len(ret.affected) = ret.arg
    /\ Range(ret.affected) \subseteq Range(res[ret.actor])
    /\ SubsetManagerGetAvailable(res) = <<>>
    /\ \E s \in Subsets \ {ret.actor} : alloc[s] > 0 /\ res[s] = <<>>
    /\ \A s \in Subsets \ {ret.actor} : Range(res[s]) = {}

\* the cores the subsets other than the requester have lost between the
\* owned-core lists before and after
RemovedFromDonors(before, after, requester) ==
    LET RECURSIVE Sum(_)
        Sum(S) == IF S = {} THEN 0
                  ELSE LET s == CHOOSE x \in S : TRUE
                       IN  Max(0, Len(before[s]) - Len(after[s])) + Sum(S \ {s})
    IN  Sum(Subsets \ {requester})

\* C22: the list returned by reclaim_from_all, whatever the
\* requester (None included), simulated or not, and the list of every order
\* resolved by execute_orders, holds at most quantity cores, and the cores
\* taken from the pool plus the cores removed from the donors are at most
\* quantity.
C22_ReclaimCapped ==
    [][/\ (ret'.op = "reclaim_from_all" /\ ~ret'.err)
            => /\ Len(ret'.affected) <= ret'.arg
               /\ RemovedFromDonors(res, res', ret'.actor)
                     + Cardinality(Range(ret'.affected)
                                      \cap Range(SubsetManagerGetAvailable(res)))
                     <= ret'.arg
       /\ ret'.op = "execute_orders"
            => \A k \in 1..Len(ret'.trace) :
                  /\ Len(ret'.trace[k].affected) <= ret'.trace[k].quantity
                  /\ RemovedFromDonors(IF k = 1 THEN res ELSE ret'.trace[k - 1].after,
                                       ret'.trace[k].after, ret'.trace[k].actor)
                        + Cardinality(Range(ret'.trace[k].affected)
                                         \cap Range(PoolBefore(res, ret'.trace, k)))
                        <= ret'.trace[k].quantity]_vars

\* C23: __transfer_resources with receiver None returns exactly
\* min(amount, number of sender cores) cores, the last ones of the sender's
\* owned list, and removes them from the sender unless it simulates; with
\* amount = 0 it returns and removes no core.
C23_TransferToNone ==
    [][(ret'.op = "__transfer_resources" /\ ret'.value = None)
        => LET sender == ret'.actor
               kept == Len(res[sender]) - Min(ret'.arg, Len(res[sender]))
           IN  /\ ret'.affected = SubSeq(res[sender], kept + 1, Len(res[sender]))
               /\ res' = IF ret'.flag THEN res
                         ELSE [res EXCEPT ![sender] = SubSeq(res[sender], 1, kept)]]_vars

\* A donation of the second tier, seen from outside: a subset under the
\* static policy, other than the requester, whose availability in the
\* owned-core lists before was at least 0, has lost cores, no more of them
\* than that availability (the second tier takes min(available, remaining)
\* cores; the steal of the third tier comes on top of it).  Its
\* availability in the owned-core lists after is still at least 0.
DonationKeepsAvailability(before, eff, after, requester) ==
    \A s \in Range(actors) \ {requester} :
        (/\ policy[s].kind = "static"
         /\ GetAvailable(before, eff, s).value >= 0
         /\ Len(before[s]) > Len(after[s])
         /\ Len(before[s]) - Len(after[s]) <= GetAvailable(before, eff, s).value)
           => GetAvailable(after, eff, s).value >= 0

\* C24: a donation of the second tier never over-commits the
\* donor: a donor under the static policy whose virtual availability
\* capacity * ratio - allocation is at least 0 before it donates
\* min(available, remaining) cores still has a virtual availability of at
\* least 0 after the transfer.
C24_DonorNotOvercommitted ==
    [][/\ (ret'.op = "reclaim_from_all" /\ ~ret'.flag /\ ~ret'.err)
            => DonationKeepsAvailability(res, effective, res', ret'.actor)
       /\ ret'.op = "execute_orders"
            => \A k \in 1..Len(ret'.trace) :
                  DonationKeepsAvailability(
                      IF k = 1 THEN res ELSE ret'.trace[k - 1].after, effective,
                      ret'.trace[k].after, ret'.trace[k].actor)]_vars

\* C25: the count unused_resources_count returns under the static
\* policy is between 0 and the capacity, for every capacity, allocation,
\* ratio of at least 1 and largest single allocation, the allocations above
\* capacity * ratio included.
C25_UnusedNonNegative ==
    ret.op = "unused_resources_count" => ret.value \in 0..CallCapacity

====
